---- MODULE Spec2Model ----
(***************************************************************************)
(* Email notification service of tc-notifications                          *)
(* (src/connect/notificationServices/email.js): the placeholder resolver,  *)
(* the event classifier, the section builder, the per-event handler and    *)
(* the due-event batch processor.                                          *)
(*                                                                         *)
(* A JavaScript string is a string; its characters are its substrings of   *)
(* length one.                                                             *)
(***************************************************************************)
EXTENDS Integers, Sequences, FiniteSets, TLC

VARIABLES
  \* the placeholder resolver: its arguments, its result, the value of its
  \* local `replacement` in every iteration, and its position
  term, dataList, ret, replacements, ppc,
  \* the classifier and the section builder: the bundle configuration, the
  \* events given, the keys and the sections returned, and the position
  bundles, projectUserEvents, keys, sections, spc,
  \* the handler: the inbound message the consumer delivers, the user's
  \* stored settings, the process configuration, per invocation its position
  \* and the calls it has made, the number of deliveries so far, every record
  \* handed to scheduler.addEvent and every event handed to
  \* busService.postEvent, and the result of every finished invocation
  message, settings, config, hpc, deliveries, calls, added, posted, results,
  \* the batch processor: the due events the scheduler passes, whether
  \* handleScheduledEvents has returned, the events handed to
  \* busService.postEvent, and per user how the dispatch settled, the position
  \* of the promise chain and the calls of setEventsStatus; the objects in the
  \* memory of the process, those of the due events first
  events, returned, busCalls, dispatch, chain, statusCalls, heap

pvars == <<term, dataList, ret, replacements, ppc>>
svars == <<bundles, projectUserEvents, keys, sections, spc>>
hvars == <<message, settings, config, hpc, deliveries, calls, added, posted, results>>
bvars == <<events, returned, busCalls, dispatch, chain, statusCalls, heap>>
vars == <<pvars, svars, hvars, bvars>>

----------------------------------------------------------------------------
(* Bounds *)

MaxTermParts == 3
MaxData == 3
MaxSectionEvents == 4
MaxDeliveries == 2
MaxBatch == 3

----------------------------------------------------------------------------
(* Strings *)

\* the characters the class [a-zA-Z] matches
Letters ==
  {"a", "b", "c", "d", "e", "f", "g", "h", "i", "j", "k", "l", "m",
   "n", "o", "p", "q", "r", "s", "t", "u", "v", "w", "x", "y", "z",
   "A", "B", "C", "D", "E", "F", "G", "H", "I", "J", "K", "L", "M",
   "N", "O", "P", "Q", "R", "S", "T", "U", "V", "W", "X", "Y", "Z"}

Digits == {"0", "1", "2", "3", "4", "5", "6", "7", "8", "9"}

\* the sequences over S of length n at most
RECURSIVE SeqsUpTo(_, _)
SeqsUpTo(S, n) ==
  IF n = 0 THEN {<<>>}
  ELSE LET shorter == SeqsUpTo(S, n - 1) IN
       shorter \cup {Append(s, a) : s \in {t \in shorter : Len(t) = n - 1}, a \in S}

Range(s) == {s[i] : i \in 1..Len(s)}

\* the string made of the strings of a sequence
RECURSIVE concat(_)
concat(s) == IF s = <<>> THEN "" ELSE s[1] \o concat(Tail(s))

\* the character of s at position i (from 1)
charAt(s, i) == SubSeq(s, i, i)

\* the length of the run of letters of s that starts at position i
RECURSIVE lettersRun(_, _)
lettersRun(s, i) ==
  IF i <= Len(s) /\ charAt(s, i) \in Letters THEN 1 + lettersRun(s, i + 1) ELSE 0

\* term.match(/<[a-zA-Z]+>/g) from position i on: the matches, left to right
\* (no match is the empty sequence, which the caller treats like null)
RECURSIVE matchFrom(_, _)
matchFrom(s, i) ==
  IF i > Len(s) THEN <<>>
  ELSE LET k == lettersRun(s, i + 1) IN
       IF charAt(s, i) = "<" /\ k >= 1 /\ i + k + 1 <= Len(s) /\ charAt(s, i + k + 1) = ">"
       THEN <<SubSeq(s, i, i + k + 1)>> \o matchFrom(s, i + k + 2)
       ELSE matchFrom(s, i + 1)

match(s) == matchFrom(s, 1)

\* an array element as a string: a string is <<string>>, undefined is <<>>
\* and joins as the empty string
str(v) == IF v = <<>> THEN "" ELSE v[1]

\* Array.prototype.join
RECURSIVE join(_, _)
join(values, sep) ==
  IF values = <<>> THEN ""
  ELSE IF Len(values) = 1 THEN str(values[1])
  ELSE str(values[1]) \o sep \o join(Tail(values), sep)

\* the first position >= i at which p occurs in s, 0 when there is none
indexOf(s, p, i) ==
  LET found == {j \in i..(Len(s) - Len(p) + 1) : SubSeq(s, j, j + Len(p) - 1) = p}
  IN IF found = {} THEN 0 ELSE CHOOSE j \in found : \A h \in found : j <= h

\* the grave accent and the apostrophe (a grave accent in a string opens a
\* quotation that the next apostrophe closes, so the two are written together)
GraveAndApostrophe == "`'"
Grave == SubSeq(GraveAndApostrophe, 1, 1)
Apostrophe == SubSeq(GraveAndApostrophe, 2, 2)

\* GetSubstitution for a string pattern, from position i of the replacement
\* text r: $$ is a dollar sign, $& the matched text, $ with a grave accent
\* the text before the match, $ with an apostrophe the text after it; a
\* pattern without capture groups leaves every other $ as it is
RECURSIVE expand(_, _, _, _, _)
expand(r, i, matched, before, after) ==
  LET d == indexOf(r, "$", i) IN
  IF d = 0 THEN SubSeq(r, i, Len(r))
  ELSE SubSeq(r, i, d - 1)
       \o (IF d < Len(r) /\ charAt(r, d + 1) \in {"$", "&", Grave, Apostrophe}
           THEN (CASE charAt(r, d + 1) = "$" -> "$"
                   [] charAt(r, d + 1) = "&" -> matched
                   [] charAt(r, d + 1) = Grave -> before
                   [] charAt(r, d + 1) = Apostrophe -> after)
                \o expand(r, d + 2, matched, before, after)
           ELSE "$" \o expand(r, d + 1, matched, before, after))

\* String.prototype.replace with a string pattern and a string replacement:
\* the first occurrence only, the replacement text expanded
replace(s, p, r) ==
  LET i == indexOf(s, p, 1) IN
  IF i = 0 THEN s
  ELSE LET before == SubSeq(s, 1, i - 1)
           after == SubSeq(s, i + Len(p), Len(s))
       IN before \o expand(r, 1, p, before, after) \o after

\* the property names every plain object inherits from Object.prototype
ObjectPrototypeNames ==
  {"constructor", "toString", "toLocaleString", "valueOf", "hasOwnProperty",
   "isPrototypeOf", "propertyIsEnumerable", "__proto__",
   "__defineGetter__", "__defineSetter__", "__lookupGetter__", "__lookupSetter__"}

\* what a plain object inherits under the name, as the string it joins as:
\* the prototype itself for __proto__, a native function for the others
inherited(name) ==
  IF name = "__proto__" THEN "[object Object]"
  ELSE "function " \o (IF name = "constructor" THEN "Object" ELSE name)
         \o "() { [native code] }"

\* object[name] on a plain object: its own property, else the one it
\* inherits, else undefined (<<>>)
get(object, name) ==
  IF name \in DOMAIN object THEN <<object[name]>>
  ELSE IF name \in ObjectPrototypeNames THEN <<inherited(name)>>
  ELSE <<>>

\* _.map(data, name): the named property of every item
map(items, name) == [i \in 1..Len(items) |-> get(items[i], name)]

CommaSpace == ", "

\* the local `replacement` of replacePlaceholders
replacement(values) ==
  IF Len(values) < 3 THEN join(values, CommaSpace)
  ELSE join(SubSeq(values, 1, 2), CommaSpace)
         \o " and " \o ToString(Len(values) - 3) \o "others"

\* the values of placeholder p: p.slice(1, -1) names the property
valuesOf(items, p) == map(items, SubSeq(p, 2, Len(p) - 1))

\* the replacement text one iteration passes to replace for p
substituted(items, p) == join(valuesOf(items, p), CommaSpace)

\* the loop over the placeholders
RECURSIVE replaceEach(_, _, _)
replaceEach(r, ps, items) ==
  IF ps = <<>> THEN r
  ELSE replaceEach(replace(r, ps[1], substituted(items, ps[1])), Tail(ps), items)

replacePlaceholders(t, items) == replaceEach(t, match(t), items)

\* the value of the decimal numeral made of the first n characters of k
RECURSIVE numberOf(_, _)
numberOf(k, n) ==
  IF n = 0 THEN 0
  ELSE 10 * numberOf(k, n - 1) + (CHOOSE d \in 0..9 : ToString(d) = charAt(k, n))

\* the value of a numeral of ten digits at most, as the pair of the number
\* its leading digits make and the number its last five digits make
limbs(k) ==
  IF Len(k) <= 5 THEN <<0, numberOf(k, Len(k))>>
  ELSE <<numberOf(k, Len(k) - 5), numberOf(SubSeq(k, Len(k) - 4, Len(k)), 5)>>

\* the order of such pairs by the values they stand for
indexBefore(a, b) == a[1] < b[1] \/ (a[1] = b[1] /\ a[2] < b[2])

\* the largest array index, 2^32 - 2
MaxArrayIndex == <<42949, 67294>>

\* the array index a property key denotes, <<>> when the key is not one: a
\* key is an array index when it is the canonical numeral of an integer below
\* 2^32 - 1
arrayIndex(k) ==
  IF /\ Len(k) \in 1..10
     /\ \A i \in 1..Len(k) : charAt(k, i) \in Digits
     /\ Len(k) = 1 \/ charAt(k, 1) # "0"
     /\ ~indexBefore(MaxArrayIndex, limbs(k))
  THEN limbs(k)
  ELSE <<>>

----------------------------------------------------------------------------
(* Configuration: require('../events-config'), require('../constants') *)

\* EVENT_BUNDLES in declaration order; groupBy "" when the group has none
EVENT_BUNDLES == <<
  [key |-> "TOPICS_AND_POSTS",
   types |-> {"post.created", "post.mention"},
   title |-> "<authorHandle> wrote",
   subject |-> "New message from <authorHandle>",
   groupBy |-> "authorHandle"],
  [key |-> "PROJECT_STATUS",
   types |-> {"project.active"},
   title |-> "Status changed by <authorHandle>",
   subject |-> "Project status changed",
   groupBy |-> ""],
  [key |-> "DEFAULT",
   types |-> {},
   title |-> "Other updates",
   subject |-> "Project update",
   groupBy |-> ""] >>

\* a configuration in which two groups erroneously share a type
SharedTypeBundles == <<
  [key |-> "TOPICS_AND_POSTS",
   types |-> {"post.created", "post.mention"},
   title |-> "Topics and posts",
   subject |-> "New message",
   groupBy |-> "authorHandle"],
  [key |-> "PROJECT_STATUS",
   types |-> {"project.active", "post.mention"},
   title |-> "Project status",
   subject |-> "Project status changed",
   groupBy |-> ""],
  [key |-> "DEFAULT",
   types |-> {},
   title |-> "Other updates",
   subject |-> "Project update",
   groupBy |-> ""] >>

EventTypes == {"post.created", "post.mention", "project.active", "project.updated"}

\* user handles: names, numerals that are array indices, and the numeral of
\* 2^32 - 1, which is not one
Handles == {"alice", "bob", "7", "42", "1000000000", "4294967295"}

\* the keys of SCHEDULED_EVENT_PERIOD
SCHEDULED_EVENT_PERIOD == {"every10minutes", "hourly", "daily"}

\* BUS_API_EVENT.EMAIL.GENERAL, BUS_API_EVENT.CONNECT.POST.MENTION
EMAIL_GENERAL == "email.general"
POST_MENTION == "post.mention"

\* SCHEDULED_EVENT_STATUS
COMPLETED == "COMPLETED"
FAILED == "FAILED"

\* config.MENTION_EMAIL, config.DEFAULT_REPLY_EMAIL, config.REPLY_EMAIL_FROM
MENTION_EMAIL == "mention@connect"
DEFAULT_REPLY_EMAIL == "reply@connect"
REPLY_EMAIL_FROM == "Topcoder"

\* config.ENABLE_DEV_MODE with config.DEV_MODE_EMAIL
Configs == [ENABLE_DEV_MODE : {"true", "false"}, DEV_MODE_EMAIL : {"dev@connect"}]

----------------------------------------------------------------------------
(* Classification and sections *)

\* _.find over the keys: the position of the first group whose types include
\* the type, 0 when there is none
RECURSIVE findGroup(_, _, _)
findGroup(bs, type, i) ==
  IF i > Len(bs) THEN 0
  ELSE IF type \in bs[i].types THEN i
  ELSE findGroup(bs, type, i + 1)

\* a classifier in which the group declared last wins
getEventGroupKeyIn_last(bs, value) ==
  LET owners == {i \in 1..Len(bs) : value.data.data.type \in bs[i].types} IN
  IF owners = {} THEN "DEFAULT"
  ELSE bs[CHOOSE i \in owners : \A j \in owners : j <= i].key

\* getEventGroupKey, with the configuration it reads as a parameter
getEventGroupKeyIn(bs, value) ==
  LET i == findGroup(bs, value.data.data.type, 1) IN
  IF i = 0 THEN "DEFAULT" ELSE bs[i].key

getEventGroupKey(value) == getEventGroupKeyIn(EVENT_BUNDLES, value)

\* EVENT_BUNDLES[key], with the configuration as a parameter
bundleIn(bs, key) == bs[CHOOSE i \in 1..Len(bs) : bs[i].key = key]

bundle(key) == bundleIn(EVENT_BUNDLES, key)

\* the distinct elements of ks, in the order of their first occurrence
RECURSIVE distinct(_)
distinct(ks) ==
  IF ks = <<>> THEN <<>>
  ELSE LET d == distinct(SubSeq(ks, 1, Len(ks) - 1)) IN
       IF \E i \in 1..Len(d) : d[i] = ks[Len(ks)] THEN d ELSE Append(d, ks[Len(ks)])

\* the elements of s whose key (same position in ks) is k, in order
RECURSIVE pick(_, _, _)
pick(s, ks, k) ==
  IF s = <<>> THEN <<>>
  ELSE (IF ks[1] = k THEN <<s[1]>> ELSE <<>>) \o pick(Tail(s), Tail(ks), k)

\* increasing sequence of the elements of a finite set of integers
RECURSIVE ascending(_)
ascending(S) ==
  IF S = {} THEN <<>>
  ELSE LET least == CHOOSE x \in S : \A y \in S : x <= y
       IN <<least>> \o ascending(S \ {least})

\* the keys of a finite set of array-index keys, by increasing index
RECURSIVE ascendingIndices(_)
ascendingIndices(S) ==
  IF S = {} THEN <<>>
  ELSE LET least == CHOOSE x \in S :
                      \A y \in S : ~indexBefore(arrayIndex(y), arrayIndex(x))
       IN <<least>> \o ascendingIndices(S \ {least})

\* the order in which the properties of an object are enumerated: the array
\* indices in ascending order, then the other keys in the order of creation
propertyOrder(ks) ==
  LET d == distinct(ks)
  IN ascendingIndices({d[i] : i \in {j \in 1..Len(d) : arrayIndex(d[j]) # <<>>}})
       \o SelectSeq(d, LAMBDA k : arrayIndex(k) = <<>>)

\* _.groupBy followed by forIn, for string keys: the groups in property order
groupBy(s, ks) ==
  LET d == propertyOrder(ks) IN
  [j \in 1..Len(d) |-> [key |-> d[j], value |-> pick(s, ks, d[j])]]

\* _(value).map(g => g.data.data).value()
contentsOf(value) == [i \in 1..Len(value) |-> value[i].data.data]

\* one pushed section
section(bs, key, value) ==
  [title |-> replacePlaceholders(bundleIn(bs, key).title, contentsOf(value)),
   key |-> key,
   notifications |-> contentsOf(value)]

\* a section builder that ignores groupBy
sectionsOfGroup_flat(bs, key, value) == <<section(bs, key, value)>>

\* the sections of one classifier group
sectionsOfGroup(bs, key, value) ==
  IF bundleIn(bs, key).groupBy = ""
  THEN <<section(bs, key, value)>>
  ELSE LET sub == groupBy(value, [i \in 1..Len(value) |->
                                   value[i].data.data[bundleIn(bs, key).groupBy]])
       IN [j \in 1..Len(sub) |-> section(bs, key, sub[j].value)]

RECURSIVE flatten(_)
flatten(ss) == IF ss = <<>> THEN <<>> ELSE ss[1] \o flatten(Tail(ss))

\* getSections, with the configuration it reads as a parameter
getSectionsIn(bs, value) ==
  LET groups == groupBy(value, [i \in 1..Len(value) |-> getEventGroupKeyIn(bs, value[i])])
  IN flatten([j \in 1..Len(groups) |->
                sectionsOfGroup(bs, groups[j].key, groups[j].value)])

getSections(value) == getSectionsIn(EVENT_BUNDLES, value)

\* the notification data the handler builds (eventMessage.data), reduced to
\* the fields classification, sections and aggregation read
NotificationData == [type : EventTypes, projectId : {1, 2}, authorHandle : Handles]

\* events as getSections reads them: event.data.data is the notification
\* data; posts and mentions of authors whose handles are a name, two array
\* indices (of one and of ten digits) and a numeral that is not one, and
\* events of the other types
SectionEvents ==
  {[data |-> [data |-> d]] :
     d \in {n \in NotificationData :
              /\ n.projectId = 1
              /\ \/ n.type = "post.created" /\ n.authorHandle \in {"alice", "7", "1000000000"}
                 \/ n.type = "post.mention" /\ n.authorHandle \in {"alice", "4294967295"}
                 \/ n.type = "project.active" /\ n.authorHandle = "alice"
                 \/ n.type = "project.updated" /\ n.authorHandle \in {"alice", "bob"}}}

----------------------------------------------------------------------------
(* The handler *)

\* EVENT_BUNDLES.TOPICS_AND_POSTS.types
messagingTypes == bundle("TOPICS_AND_POSTS").types

\* notification.newType || topicName
notificationTypeOf(m) == IF m.newType # "" THEN m.newType ELSE m.topicName

\* _.assign(object, source): the properties of source, and those of object
\* that source does not have
assign(object, source) ==
  [k \in DOMAIN object \cup DOMAIN source |->
     IF k \in DOMAIN source THEN source[k] ELSE object[k]]

\* eventMessage as built before the bundling decision: the recipient is the
\* user's email or, in development mode, the configured address; the data
\* carry a flag named by the type and are overwritten by the notification
\* contents
eventMessageOf(m, cfg) ==
  LET type == notificationTypeOf(m) IN
  [data |-> assign((type :> TRUE) @@ [type |-> type,
                                      projectId |-> m.projectId,
                                      authorHandle |-> m.contents.userHandle],
                   m.contents),
   recipients |-> <<IF cfg.ENABLE_DEV_MODE = "true" THEN cfg.DEV_MODE_EMAIL
                    ELSE m.userEmail>>,
   cc |-> IF type \in messagingTypes /\ type = POST_MENTION
          THEN <<MENTION_EMAIL>> ELSE <<>>,
   replyTo |-> IF type \in messagingTypes THEN "reply+topic" ELSE ""]

\* wrapIndividualNotification({data: eventMessage})
wrapIndividualNotification(d) ==
  [subject |-> replacePlaceholders(bundle(getEventGroupKey(d)).subject, <<d.data.data>>),
   projects |-> << [id |-> d.data.data.projectId, sections |-> getSections(<<d>>)] >>]

\* a scheduler that lets messaging events default into bundling
resolveBundling_all(s, messagingEvent) ==
  IF s.bundlingEnabled = ""
  THEN [bundlingEnabled |-> "yes",
        bundlePeriod |-> IF s.bundlePeriod = "" THEN "daily" ELSE s.bundlePeriod]
  ELSE [bundlingEnabled |-> s.bundlingEnabled, bundlePeriod |-> s.bundlePeriod]

\* a default period other than daily
resolveBundling_hourly(s, messagingEvent) ==
  IF s.bundlingEnabled = "" /\ ~messagingEvent
  THEN [bundlingEnabled |-> "yes",
        bundlePeriod |-> IF s.bundlePeriod = "" THEN "hourly" ELSE s.bundlePeriod]
  ELSE [bundlingEnabled |-> s.bundlingEnabled, bundlePeriod |-> s.bundlePeriod]

\* bundlingEnabled and bundlePeriod as resolved from the settings ("" is an
\* unset, falsy value)
resolveBundling(s, messagingEvent) ==
  IF s.bundlingEnabled = "" /\ ~messagingEvent
  THEN [bundlingEnabled |-> "yes",
        bundlePeriod |-> IF s.bundlePeriod = "" THEN "daily" ELSE s.bundlePeriod]
  ELSE [bundlingEnabled |-> s.bundlingEnabled, bundlePeriod |-> s.bundlePeriod]

\* SCHEDULED_EVENT_PERIOD[bundlePeriod] is truthy: the lookup on the plain
\* object finds its own keys and the properties it inherits
periodFound(bundlePeriod) ==
  bundlePeriod \in SCHEDULED_EVENT_PERIOD \cup ObjectPrototypeNames

\* a decision that refuses an event delivered before
decide_once(b) ==
  IF added # <<>> \/ posted # <<>> THEN "throw"
  ELSE IF b.bundlingEnabled = "yes" /\ b.bundlePeriod # ""
       THEN IF ~periodFound(b.bundlePeriod) THEN "throw" ELSE "schedule"
       ELSE "send"

\* a decision that looks at the period only
decide_periodOnly(b) ==
  IF b.bundlePeriod # ""
  THEN IF ~periodFound(b.bundlePeriod) THEN "throw" ELSE "schedule"
  ELSE "send"

\* the branch the handler takes
decide(b) ==
  IF b.bundlingEnabled = "yes" /\ b.bundlePeriod # ""
  THEN IF ~periodFound(b.bundlePeriod) THEN "throw" ELSE "schedule"
  ELSE "send"

\* the record handed to scheduler.addEvent
scheduledEventOf(m, period, cfg) ==
  LET type == notificationTypeOf(m)
      eventMessage == eventMessageOf(m, cfg)
  IN [data |-> eventMessage,
      period |-> period,
      userId |-> m.userId,
      eventType |-> EMAIL_GENERAL,
      reference |-> IF type \in messagingTypes THEN "topic" ELSE "project",
      referenceId |-> IF type \in messagingTypes THEN m.topicId
                      ELSE eventMessage.data.projectId]

\* the event handed to busService.postEvent on the immediate path
immediateEventOf(m, cfg) ==
  LET eventMessage == eventMessageOf(m, cfg) IN
  [topic |-> EMAIL_GENERAL,
   payload |-> [eventMessage EXCEPT !.data = wrapIndividualNotification([data |-> eventMessage])]]

\* a handler that swallows a rejected dispatch
settle_swallow(busOutcome) == "resolved"

\* how the promise the handler returns settles on the immediate path
settle(busOutcome) == IF busOutcome = "resolved" THEN "resolved" ELSE "rejected"

\* notification.contents: the author's handle and, in some, a property that
\* has the name of one the handler sets itself
Contents ==
  {[userHandle |-> h] : h \in Handles}
    \cup {[userHandle |-> "alice", projectId |-> 2],
          [userHandle |-> "alice", type |-> "project.active"]}

Messages ==
  [topicName : EventTypes, newType : {"", "project.active"}, userId : {1, 2},
   userEmail : {"user@mail"}, projectId : {1, 2}, topicId : {7}, contents : Contents]

\* the messages the consumer delivers to the handler: every topic with and
\* without a new type, and a project update whose contents carry a property
\* the handler sets itself
InboundMessages ==
  {m \in Messages :
     /\ m.userId = 1 /\ m.projectId = 1
     /\ \/ m.contents = [userHandle |-> "alice"]
        \/ /\ m.topicName = "project.updated" /\ m.newType = ""
           /\ m.contents \in {[userHandle |-> "alice", projectId |-> 2],
                              [userHandle |-> "alice", type |-> "project.active"]}}

\* what getSettings resolves with: whether the object has a `notifications`
\* property, notifications[type].email.enabled, notifications[type]
\* .emailBundling.enabled and services.email.bundlePeriod ("" when missing)
Settings ==
  {s \in [notifications : BOOLEAN,
          emailEnabled : {"", "yes", "no"},
          bundlingEnabled : {"", "yes", "no"},
          bundlePeriod : {"", "daily", "every10minutes", "fortnightly", "constructor"}] :
     ~s.notifications => (s.emailEnabled = "" /\ s.bundlingEnabled = "")}

IdlePlaceholders ==
  /\ term = ""
  /\ dataList = <<>>
  /\ ret = ""
  /\ replacements = <<>>
  /\ ppc = "idle"

IdleSections ==
  /\ bundles = EVENT_BUNDLES
  /\ projectUserEvents = <<>>
  /\ keys = <<>>
  /\ sections = <<>>
  /\ spc = "idle"

UserIds == {1, 2}

IdleBatch ==
  /\ events = <<>>
  /\ returned = FALSE
  /\ busCalls = <<>>
  /\ dispatch = [u \in UserIds |-> "none"]
  /\ chain = [u \in UserIds |-> "none"]
  /\ statusCalls = [u \in UserIds |-> <<>>]
  /\ heap = <<>>

\* the invocations of the handler, in the order of the deliveries
Invocations == 1..MaxDeliveries

NoCalls == [getUsersById |-> 0, addEvent |-> 0, postEvent |-> 0]

IdleHandler ==
  /\ message = [topicName |-> "", newType |-> "", userId |-> 0, userEmail |-> "",
                projectId |-> 0, topicId |-> 0, contents |-> [userHandle |-> ""]]
  /\ settings = [notifications |-> TRUE, emailEnabled |-> "", bundlingEnabled |-> "",
                 bundlePeriod |-> ""]
  /\ config = [ENABLE_DEV_MODE |-> "false", DEV_MODE_EMAIL |-> ""]
  /\ hpc = [k \in Invocations |-> "idle"]
  /\ deliveries = 0
  /\ calls = [k \in Invocations |-> NoCalls]
  /\ added = <<>>
  /\ posted = <<>>
  /\ results = <<>>

\* invocation k ends: how its promise settled, how its dispatch (if any)
\* settled, and the calls it made
finish(k, outcome, bus) ==
  /\ results' = Append(results, [id |-> k, outcome |-> outcome, bus |-> bus,
                                 calls |-> calls'[k]])
  /\ hpc' = [hpc EXCEPT ![k] = "done"]

\* the consumer delivers the message: handler is called, whatever the earlier
\* invocations are waiting for, and getSettings is pending
Deliver ==
  /\ deliveries < MaxDeliveries
  /\ deliveries' = deliveries + 1
  /\ hpc' = [hpc EXCEPT ![deliveries + 1] = "getSettings"]
  /\ UNCHANGED <<message, settings, config, calls, added, posted, results,
                 pvars, svars, bvars>>

\* a check that takes a missing email setting for a disabled one
emailDisabled_unlessYes(s, notificationType) ==
  IF ~s.notifications THEN "throws"
  ELSE IF s.emailEnabled # "yes" THEN "disabled" ELSE "enabled"

\* the test whether the email service is explicitly disabled for the
\* notification type: reading settings.notifications[type] throws when the
\* settings have no `notifications`; a missing entry for the type or the
\* service, or a value other than 'no', is not disabled
emailDisabled(s, notificationType) ==
  IF ~s.notifications THEN "throws"
  ELSE IF s.emailEnabled = "no" THEN "disabled" ELSE "enabled"

\* getSettings of invocation k resolves: the disabled check, which ends the
\* invocation after a logging statement that may throw, or else getUsersById
\* is pending
SettingsArrive(k) ==
  /\ hpc[k] = "getSettings"
  /\ LET disabled == emailDisabled(settings, notificationTypeOf(message)) IN
     CASE disabled = "throws" ->
            /\ calls' = calls
            /\ finish(k, "typeError", "none")
       [] disabled = "disabled" ->
            /\ calls' = calls
            /\ \E threw \in {"logger", "nothing"} :
                 finish(k, IF threw = "logger" THEN "thrown" ELSE "skipped", "none")
       [] disabled = "enabled" ->
            /\ calls' = [calls EXCEPT ![k].getUsersById = @ + 1]
            /\ hpc' = [hpc EXCEPT ![k] = "getUsers"]
            /\ UNCHANGED results
  /\ UNCHANGED <<message, settings, config, deliveries, added, posted, pvars, svars, bvars>>

\* getSettings or getUsersById of invocation k rejects: the handler's promise
\* rejects
LookupRejects(k) ==
  /\ hpc[k] \in {"getSettings", "getUsers"}
  /\ calls' = calls
  /\ finish(k, "lookupError", "none")
  /\ UNCHANGED <<message, settings, config, deliveries, added, posted, pvars, svars, bvars>>

\* getUsersById of invocation k resolves, with the user or with an empty
\* list: a logging statement before the decision may throw; reading
\* users[0].email throws when the list is empty; else the message is built
\* and scheduled (scheduler.addEvent may throw), sent or refused
UsersArrive(k) ==
  /\ hpc[k] = "getUsers"
  /\ \E users \in {"found", "empty"}, threw \in {"logger", "addEvent", "nothing"} :
       LET type == notificationTypeOf(message)
           b == resolveBundling(settings, type \in messagingTypes)
       IN CASE threw = "logger" ->
                 /\ calls' = calls
                 /\ finish(k, "thrown", "none")
                 /\ UNCHANGED <<added, posted>>
            [] threw # "logger" /\ users = "empty" ->
                 /\ calls' = calls
                 /\ finish(k, "typeError", "none")
                 /\ UNCHANGED <<added, posted>>
            [] threw # "logger" /\ users = "found" /\ decide(b) = "throw" ->
                 /\ calls' = calls
                 /\ finish(k, "configError", "none")
                 /\ UNCHANGED <<added, posted>>
            [] threw # "logger" /\ users = "found" /\ decide(b) = "schedule" ->
                 /\ added' = Append(added, scheduledEventOf(message, b.bundlePeriod, config))
                 /\ calls' = [calls EXCEPT ![k].addEvent = @ + 1]
                 /\ finish(k, IF threw = "addEvent" THEN "schedulerError" ELSE "scheduled",
                           "none")
                 /\ UNCHANGED posted
            [] threw # "logger" /\ users = "found" /\ decide(b) = "send" ->
                 /\ posted' = Append(posted, immediateEventOf(message, config))
                 /\ calls' = [calls EXCEPT ![k].postEvent = @ + 1]
                 /\ hpc' = [hpc EXCEPT ![k] = "postEvent"]
                 /\ UNCHANGED <<added, results>>
  /\ UNCHANGED <<message, settings, config, deliveries, pvars, svars, bvars>>

\* busService.postEvent of invocation k settles on the immediate path; when
\* it resolves the logging statement of the .then callback runs, and may throw
PostEventSettles(k) ==
  /\ hpc[k] = "postEvent"
  /\ \E busOutcome \in {"resolved", "rejected"}, threw \in {"logger", "nothing"} :
       /\ calls' = calls
       /\ finish(k, IF settle(busOutcome) = "rejected" THEN "dispatchError"
                    ELSE IF threw = "logger" THEN "logError" ELSE "sent",
                 busOutcome)
  /\ UNCHANGED <<message, settings, config, deliveries, added, posted, pvars, svars, bvars>>

Init ==
  /\ message \in InboundMessages
  /\ settings \in Settings
  /\ config \in Configs
  /\ hpc = [k \in Invocations |-> "idle"]
  /\ deliveries = 0
  /\ calls = [k \in Invocations |-> NoCalls]
  /\ added = <<>>
  /\ posted = <<>>
  /\ results = <<>>
  /\ IdlePlaceholders
  /\ IdleSections
  /\ IdleBatch

Next ==
  \/ Deliver
  \/ \E k \in Invocations : SettingsArrive(k)
  \/ \E k \in Invocations : LookupRejects(k)
  \/ \E k \in Invocations : UsersArrive(k)
  \/ \E k \in Invocations : PostEventSettles(k)

Spec == Init /\ [][Next]_vars

----------------------------------------------------------------------------
(* The due-event batch processor *)

\* _.groupBy followed by iteration, for keys that are numbers (user ids,
\* project ids), all of them array indices: the groups in ascending order of
\* their keys
groupByIndex(s, ks) ==
  LET d == ascending(Range(ks)) IN
  [j \in 1..Len(d) |-> [key |-> d[j], value |-> pick(s, ks, d[j])]]

\* a grouping that puts every event in a group of its own
eventsByUsers_perEvent(evs) ==
  [i \in 1..Len(evs) |-> [key |-> evs[i].userId, value |-> <<i>>]]

\* eventsByUsers of a batch: per user the positions of the user's events
eventsByUsers(evs) ==
  groupByIndex([i \in 1..Len(evs) |-> i], [i \in 1..Len(evs) |-> evs[i].userId])

\* the positions in the batch of the events of user u
userEventsOf(evs, u) ==
  pick([i \in 1..Len(evs) |-> i], [i \in 1..Len(evs) |-> evs[i].userId], u)

\* bundleData.projects for the events of one user
projectsOf(userEvents) ==
  LET byProject == groupByIndex(userEvents, [i \in 1..Len(userEvents) |->
                                               userEvents[i].data.data.projectId])
  IN [j \in 1..Len(byProject) |->
        [id |-> byProject[j].value[1].data.data.projectId,
         sections |-> getSections(byProject[j].value)]]

\* ---- objects ----
\* The memory of the process is a heap: an object or an array is a position
\* in it (its address) and holds a cell per property or element; a cell is a
\* primitive value or the address of another object, so two properties can
\* hold the same object and a write through one is seen through the other.
val(v) == [val |-> v]
ref(a) == [ref |-> a]
isRef(cell) == "ref" \in DOMAIN cell

\* an object literal or an array literal: a new object, at a new address
new(h, object) == [heap |-> Append(h, object), at |-> Len(h) + 1]

\* a copy that is the object itself
clone_aliased(h, a) == [heap |-> h, at |-> a]

\* _.clone(object): a new object with the cells of the object, so that a
\* nested object is shared by the object and its clone
clone(h, a) == new(h, h[a])

\* object.name = cell: the write goes to the object at the address
assignTo(h, a, name, cell) == [h EXCEPT ![a] = (name :> cell) @@ @]

\* what is read through an address: the object with every nested object in
\* place of its address (what JSON.stringify and a deep comparison see)
RECURSIVE valueOf(_, _)
valueOf(h, a) ==
  [k \in DOMAIN h[a] |-> IF isRef(h[a][k]) THEN valueOf(h, h[a][k].ref)
                         ELSE h[a][k].val]

\* the batch in memory, no two events sharing an object: the events, in the
\* order of the batch, then the eventMessage every event carries as its data,
\* then the data, the recipients and the cc of every eventMessage, each an
\* object of its own
scheduled(evs) ==
  LET n == Len(evs) IN
  [i \in 1..n |-> [k \in DOMAIN evs[i] |-> IF k = "data" THEN ref(n + i)
                                          ELSE val(evs[i][k])]]
  \o [i \in 1..n |-> [data |-> ref(n + n + i),
                      recipients |-> ref(n + n + n + i),
                      cc |-> ref(n + n + n + n + i),
                      replyTo |-> val(evs[i].data.replyTo)]]
  \o [i \in 1..n |-> [k \in DOMAIN evs[i].data.data |-> val(evs[i].data.data[k])]]
  \o [i \in 1..n |-> [k \in DOMAIN evs[i].data.recipients |->
                        val(evs[i].data.recipients[k])]]
  \o [i \in 1..n |-> [k \in DOMAIN evs[i].data.cc |-> val(evs[i].data.cc[k])]]

\* the argument `events` of handleScheduledEvents: the addresses of the due
\* events
eventsAt == [i \in 1..Len(events) |-> i]

\* the events as they are read, now
eventsNow == [i \in 1..Len(eventsAt) |-> valueOf(heap, eventsAt[i])]

\* the object literal bundleData for the events of one user, given by their
\* addresses and read as they are at that moment. What it holds is made of
\* new objects and arrays only (object literals, mapValues, map, push to a
\* new array) and is kept by its value; the notifications in its sections
\* are the data of the events, which are read
bundleDataOf(h, userEvents) ==
  [subject |-> val("Your Topcoder project updates"),
   projects |-> val(projectsOf([i \in 1..Len(userEvents) |->
                                  valueOf(h, userEvents[i])]))]

\* the argument of busService.postEvent for the eventMessage at an address,
\* as it is when the call is made
bundledEventOf(h, eventMessage) ==
  [topic |-> EMAIL_GENERAL, payload |-> valueOf(h, eventMessage)]

\* _.values(eventsByUsers).forEach from the j-th user on, with the heap and
\* the calls of busService.postEvent so far. The body, statement by
\* statement: bundleData; eventMessage, the clone of the first event's data;
\* the five assignments to eventMessage, two of them of a new array and a new
\* object; the call of postEvent. Each name is the heap, or the heap with the
\* address of the new object, after its statement
RECURSIVE forEach(_, _, _, _)
forEach(byUser, j, h, postEvents) ==
  IF j > Len(byUser)
  THEN heap' = h /\ busCalls' = postEvents
  ELSE
    \E userEvents \in {[i \in 1..Len(byUser[j].value) |-> eventsAt[byUser[j].value[i]]]} :
    \E bundleData \in {new(h, bundleDataOf(h, userEvents))} :
    \E eventMessage \in {clone(bundleData.heap,
                               bundleData.heap[userEvents[1]].data.ref)} :
    \E replyTo \in {assignTo(eventMessage.heap, eventMessage.at, "replyTo",
                             val(DEFAULT_REPLY_EMAIL))} :
    \E version \in {assignTo(replyTo, eventMessage.at, "version", val("v3"))} :
    \E empty \in {new(version, <<>>)} :
    \E cc \in {assignTo(empty.heap, eventMessage.at, "cc", ref(empty.at))} :
    \E sender \in {new(cc, [name |-> val(REPLY_EMAIL_FROM),
                            email |-> val(DEFAULT_REPLY_EMAIL)])} :
    \E from \in {assignTo(sender.heap, eventMessage.at, "from", ref(sender.at))} :
    \E data \in {assignTo(from, eventMessage.at, "data", ref(bundleData.at))} :
      forEach(byUser, j + 1, data,
              Append(postEvents, bundledEventOf(data, eventMessage.at)))

\* the continuation of .then(f).catch(g) that runs when postEvent settles
continuation(outcome) == IF outcome = "resolved" THEN "then" ELSE "catch"

\* the call of setEventsStatus in the fulfilment continuation
onFulfilled(userEvents) == [events |-> userEvents, status |-> COMPLETED]

\* a rejection continuation that marks the whole batch
onRejected_batch(userEvents) ==
  [events |-> [i \in 1..Len(events) |-> i], status |-> FAILED]

\* the call of setEventsStatus in the rejection continuation
onRejected(userEvents) == [events |-> userEvents, status |-> FAILED]

\* the messages whose scheduled events the scheduler passes as due: posts of
\* three authors to two users in two projects, and a status change
DueMessages ==
  {m \in Messages :
     /\ m.newType = ""
     /\ \/ /\ m.topicName = "post.created"
           /\ \/ m.contents \in {[userHandle |-> "alice"], [userHandle |-> "7"]}
                 /\ (m.userId = 1 \/ m.projectId = 1)
              \/ m.contents = [userHandle |-> "42"] /\ m.userId = 1 /\ m.projectId = 1
              \/ m.contents = [userHandle |-> "alice"] /\ m.userId = 2 /\ m.projectId = 2
        \/ /\ m.topicName = "project.active"
           /\ m.contents = [userHandle |-> "alice"] /\ m.userId = 1 /\ m.projectId = 1}

DueEvents ==
  {scheduledEventOf(m, "daily", [ENABLE_DEV_MODE |-> "false", DEV_MODE_EMAIL |-> "dev@connect"]) :
     m \in DueMessages}

InitBatch ==
  /\ events \in SeqsUpTo(DueEvents, MaxBatch)
  /\ returned = FALSE
  /\ busCalls = <<>>
  /\ dispatch = [u \in UserIds |-> "none"]
  /\ chain = [u \in UserIds |-> "none"]
  /\ statusCalls = [u \in UserIds |-> <<>>]
  /\ heap = scheduled(events)
  /\ IdlePlaceholders
  /\ IdleSections
  /\ IdleHandler

\* a chain whose status write does not wait for the dispatch
chainOf_eager(dispatched) == IF dispatched THEN "then" ELSE "none"

\* the promise chain of a user when handleScheduledEvents returns: waiting
\* for postEvent when one was issued for the user
chainOf(dispatched) == IF dispatched THEN "pending" ELSE "none"

\* eventsByUsers and the forEach over it: one postEvent per user, in the
\* order of the user ids
notifyUsers ==
  \E byUser \in {eventsByUsers(eventsNow)} :
    /\ forEach(byUser, 1, heap, <<>>)
    /\ dispatch' = [u \in UserIds |->
                      IF \E j \in 1..Len(byUser) : byUser[j].key = u
                      THEN "pending" ELSE "none"]
    /\ chain' = [u \in UserIds |->
                   chainOf(\E j \in 1..Len(byUser) : byUser[j].key = u)]

\* a processor that dispatches a bundle without projects for an empty batch
Trigger_emptyBundle ==
  /\ ~returned
  /\ returned' = TRUE
  /\ IF Len(events) = 0
     THEN /\ busCalls' = <<[topic |-> EMAIL_GENERAL,
                             payload |-> [data |-> [projects |-> <<>>]]]>>
          /\ UNCHANGED <<heap, dispatch, chain>>
     ELSE notifyUsers
  /\ UNCHANGED <<events, statusCalls, pvars, svars, hvars>>

\* the scheduler calls handleScheduledEvents(events, setEventsStatus): nothing
\* for an empty batch, else one postEvent per user; then the function returns
Trigger ==
  /\ ~returned
  /\ returned' = TRUE
  /\ IF Len(events) = 0
     THEN UNCHANGED <<heap, busCalls, dispatch, chain>>
     ELSE notifyUsers
  /\ UNCHANGED <<events, statusCalls, pvars, svars, hvars>>

\* the postEvent of user u resolves or rejects
DispatchSettles(u) ==
  /\ dispatch[u] = "pending"
  /\ \E outcome \in {"resolved", "rejected"} :
       /\ dispatch' = [dispatch EXCEPT ![u] = outcome]
       /\ chain' = [chain EXCEPT ![u] = continuation(outcome)]
  /\ UNCHANGED <<events, heap, returned, busCalls, statusCalls, pvars, svars, hvars>>

\* the fulfilment continuation of user u runs: the logging statement, then
\* the call of setEventsStatus with COMPLETED; either may throw, the logging
\* statement before any status is written, and what is thrown goes to the
\* .catch
Fulfilled(u) ==
  /\ chain[u] = "then"
  /\ \E threw \in {"logger", "setEventsStatus", "nothing"} :
       /\ statusCalls' =
            IF threw = "logger" THEN statusCalls
            ELSE [statusCalls EXCEPT ![u] = Append(@, onFulfilled(userEventsOf(events, u)))]
       /\ chain' = [chain EXCEPT ![u] = IF threw = "nothing" THEN "done" ELSE "catch"]
  /\ UNCHANGED <<events, heap, returned, busCalls, dispatch, pvars, svars, hvars>>

\* the rejection continuation of user u runs: the logging statement, then the
\* call of setEventsStatus with FAILED; either may throw, the logging
\* statement before any status is written, and what is thrown nobody handles
Rejected(u) ==
  /\ chain[u] = "catch"
  /\ \E threw \in {"logger", "setEventsStatus", "nothing"} :
       /\ statusCalls' =
            IF threw = "logger" THEN statusCalls
            ELSE [statusCalls EXCEPT ![u] = Append(@, onRejected(userEventsOf(events, u)))]
       /\ chain' = [chain EXCEPT ![u] = IF threw = "nothing" THEN "done" ELSE "unhandled"]
  /\ UNCHANGED <<events, heap, returned, busCalls, dispatch, pvars, svars, hvars>>

NextBatch ==
  \/ Trigger
  \/ \E u \in UserIds : DispatchSettles(u)
  \/ \E u \in UserIds : Fulfilled(u)
  \/ \E u \in UserIds : Rejected(u)

SpecBatch == InitBatch /\ [][NextBatch]_vars

----------------------------------------------------------------------------
(* The placeholder resolver applied to bounded templates and data lists *)

\* a template is made of MaxTermParts pieces at most: whole tokens, one of
\* them the name of a property every object inherits, and the characters they
\* are made of
TermAtoms == {"<n>", "<h>", "<valueOf>", "<", "n", ">"}

\* items that carry the property n and, three of them, the property h; among
\* the values the four replacement patterns and the text of a token
Items ==
  {[n |-> "x"], [n |-> "$&", h |-> "x"], [n |-> "<h>", h |-> "$$"],
   [n |-> "$" \o Apostrophe, h |-> "$" \o Grave]}

InitPlaceholders ==
  /\ term \in {concat(s) : s \in SeqsUpTo(TermAtoms, MaxTermParts)}
  /\ dataList \in SeqsUpTo(Items, MaxData)
  /\ ret = ""
  /\ replacements = <<>>
  /\ ppc = "call"
  /\ IdleSections
  /\ IdleHandler
  /\ IdleBatch

Resolve ==
  /\ ppc = "call"
  /\ ret' = replacePlaceholders(term, dataList)
  /\ replacements' = [i \in 1..Len(match(term)) |->
                        replacement(valuesOf(dataList, match(term)[i]))]
  /\ ppc' = "returned"
  /\ UNCHANGED <<term, dataList, svars, hvars, bvars>>

NextPlaceholders == Resolve

SpecPlaceholders == InitPlaceholders /\ [][NextPlaceholders]_vars

----------------------------------------------------------------------------
(* The classifier and the section builder applied to bounded event lists *)

InitSections ==
  /\ bundles \in {EVENT_BUNDLES, SharedTypeBundles}
  /\ projectUserEvents \in SeqsUpTo(SectionEvents, MaxSectionEvents)
  /\ keys = <<>>
  /\ sections = <<>>
  /\ spc = "call"
  /\ IdlePlaceholders
  /\ IdleHandler
  /\ IdleBatch

\* getEventGroupKey on every event of the list, under the drawn configuration
Classify ==
  /\ spc = "call"
  /\ keys' = [i \in 1..Len(projectUserEvents) |->
                getEventGroupKeyIn(bundles, projectUserEvents[i])]
  /\ spc' = "classified"
  /\ UNCHANGED <<bundles, projectUserEvents, sections, pvars, hvars, bvars>>

\* getSections on the list, under the same configuration
BuildSections ==
  /\ spc = "classified"
  /\ sections' = getSectionsIn(bundles, projectUserEvents)
  /\ spc' = "returned"
  /\ UNCHANGED <<bundles, projectUserEvents, keys, pvars, hvars, bvars>>

NextSections == Classify \/ BuildSections

SpecSections == InitSections /\ [][NextSections]_vars

----------------------------------------------------------------------------
(* Claims about the pure functions *)

\* the positions of the groups of the configuration that list the type
Owners(type) == {i \in 1..Len(bundles) : type \in bundles[i].types}

\* ---- C8 ----

\* the first-declared group of the configuration that lists the type
OwningKey(type) ==
  IF Owners(type) = {} THEN "DEFAULT"
  ELSE bundles[CHOOSE o \in Owners(type) : \A q \in Owners(type) : o <= q].key

GroupByOf(key) == (CHOOSE b \in Range(bundles) : b.key = key).groupBy

InputContents == [i \in 1..Len(projectUserEvents) |-> projectUserEvents[i].data.data]

\* the contents c belongs to the partition of section s
BelongsTo(c, s) ==
  /\ OwningKey(c.type) = s.key
  /\ GroupByOf(s.key) # "" =>
       c[GroupByOf(s.key)] = s.notifications[1][GroupByOf(s.key)]

Occurrences(c, seq) == Cardinality({i \in 1..Len(seq) : seq[i] = c})

OccurrencesInSections(c) ==
  Cardinality({p \in {<<j, i>> : j \in 1..Len(sections), i \in 1..MaxSectionEvents} :
                 /\ p[2] <= Len(sections[p[1]].notifications)
                 /\ sections[p[1]].notifications[p[2]] = c})

\* C8: the notifications of the sections getSections returns are, as a
\* multiset, exactly the contents of the events given; every section is not
\* empty and holds exactly the contents of one (group key, groupBy value)
\* partition, in their original relative order; no partition has two sections.
Thm_C8_SectionsPartitionInput ==
  spc = "returned" =>
    /\ \A c \in NotificationData :
         Occurrences(c, InputContents) = OccurrencesInSections(c)
    /\ \A j \in 1..Len(sections) :
         /\ sections[j].notifications # <<>>
         /\ sections[j].notifications =
              SelectSeq(InputContents, LAMBDA c : BelongsTo(c, sections[j]))
    /\ \A j, k \in 1..Len(sections) :
         j # k => ~BelongsTo(sections[k].notifications[1], sections[j])

\* a list of four events, two authors of the groupBy group among them, built
\* into three or more sections, one of which holds two notifications
Wit_C8_SplitByAuthor ==
  /\ spc = "returned"
  /\ Len(projectUserEvents) = 4
  /\ Len(sections) >= 3
  /\ \E j, k \in 1..Len(sections) :
       j # k /\ sections[j].key = "TOPICS_AND_POSTS" /\ sections[k].key = "TOPICS_AND_POSTS"
  /\ \E j \in 1..Len(sections) : Len(sections[j].notifications) = 2

\* ---- C9 ----

\* C9: getEventGroupKey returns, for an event whose type some group lists, the
\* key of the first-declared such group, and "DEFAULT" for an event whose type
\* no group lists; equal events get equal keys.
Thm_C9_ClassifyFirstDeclaredOrDefault ==
  spc # "call" =>
    /\ Len(keys) = Len(projectUserEvents)
    /\ \A i \in 1..Len(keys) :
         LET owners == Owners(projectUserEvents[i].data.data.type) IN
         IF owners = {} THEN keys[i] = "DEFAULT"
         ELSE \E o \in owners :
                /\ \A q \in owners : o <= q
                /\ keys[i] = bundles[o].key
    /\ \A i, j \in 1..Len(keys) :
         projectUserEvents[i] = projectUserEvents[j] => keys[i] = keys[j]

\* classified under the configuration with a shared type: an event of the
\* shared type, an event of an unlisted type and a repeated event
Wit_C9_SharedAndUnlisted ==
  /\ spc = "classified"
  /\ bundles = SharedTypeBundles
  /\ \E i, j, k \in 1..Len(keys) :
       /\ Cardinality(Owners(projectUserEvents[i].data.data.type)) = 2
       /\ Owners(projectUserEvents[j].data.data.type) = {}
       /\ k # i /\ projectUserEvents[k] = projectUserEvents[i]

\* ---- C10 ----

\* the comma-joined values of a property over the items, written out (the
\* value of a property an item lacks is what the item inherits, or nothing)
RECURSIVE Listed(_, _)
Listed(items, name) ==
  IF items = <<>> THEN ""
  ELSE str(get(items[1], name))
       \o (IF Len(items) > 1 THEN ", " \o Listed(Tail(items), name) ELSE "")

\* the template from position i on with every token replaced, in one pass
RECURSIVE Substitution(_, _, _)
Substitution(t, i, items) ==
  IF i > Len(t) THEN ""
  ELSE LET k == lettersRun(t, i + 1) IN
       IF charAt(t, i) = "<" /\ k >= 1 /\ i + k + 1 <= Len(t)
          /\ charAt(t, i + k + 1) = ">"
       THEN Listed(items, SubSeq(t, i + 1, i + k))
              \o Substitution(t, i + k + 2, items)
       ELSE charAt(t, i) \o Substitution(t, i + 1, items)

\* C10: the result of replacePlaceholders is, for every template and every
\* data list, the template with each <word> token replaced by the
\* comma-joined values of that property over all items in order.
Orig_C10_EveryTokenReplacedByFullList ==
  ppc = "returned" => ret = Substitution(term, 1, dataList)

----------------------------------------------------------------------------
(* Claims about the handler *)

\* the effective type is a messaging type (a type of TOPICS_AND_POSTS)
Messaging ==
  notificationTypeOf(message) \in
    (CHOOSE b \in Range(EVENT_BUNDLES) : b.key = "TOPICS_AND_POSTS").types

\* the settings carry no explicit bundling-enabled value
NoExplicitBundling == settings.bundlingEnabled = ""

\* the finished invocation k got as far as the bundling decision: it was not
\* suppressed by a disabled email setting, the settings could be read, both
\* lookups succeeded, the user was found and nothing before the decision threw
Decided(k) ==
  results[k].outcome \notin {"skipped", "lookupError", "typeError", "thrown"}

Finished == 1..Len(results)

\* the invocations whose immediate dispatch is in flight
InFlight == {k \in Invocations : hpc[k] = "postEvent"}

\* the finished invocations that called addEvent
Scheduled == {k \in Finished : results[k].outcome \in {"scheduled", "schedulerError"}}

\* the finished invocations that called postEvent
Dispatched == {k \in Finished : results[k].outcome \in {"sent", "dispatchError", "logError"}}

\* ---- C3 ----

\* C3: for a messaging event whose settings have no explicit bundling value,
\* whatever the bundlePeriod, no invocation calls scheduler.addEvent, and
\* every invocation that gets to the bundling decision makes exactly one
\* immediate dispatch.
Thm_C3_MessagingNeverDefaultsToBundling ==
  (Messaging /\ NoExplicitBundling) =>
    /\ added = <<>>
    /\ \A k \in Invocations :
         /\ calls[k].addEvent = 0
         /\ hpc[k] = "postEvent" => calls[k].postEvent = 1
    /\ \A k \in Finished :
         /\ results[k].calls.addEvent = 0
         /\ Decided(k) =>
              /\ k \in Dispatched
              /\ results[k].calls.postEvent = 1
    /\ Len(posted) = Cardinality({k \in Finished : Decided(k)}) + Cardinality(InFlight)

\* a messaging event with no explicit bundling value and a bundlePeriod of
\* daily, sent immediately
Wit_C3_MessagingSentAtOnce ==
  /\ Messaging /\ NoExplicitBundling
  /\ settings.bundlePeriod = "daily"
  /\ Len(results) >= 1
  /\ results[1].outcome = "sent"
  /\ Len(posted) = 1

\* ---- C4 ----

\* the period a defaulted event is scheduled with
DefaultedPeriod == IF settings.bundlePeriod = "" THEN "daily" ELSE settings.bundlePeriod

\* C4: for a non-messaging event whose settings have no explicit bundling
\* value and whose bundlePeriod is unset or recognized, every invocation that
\* gets to the bundling decision hands exactly one record to the scheduler,
\* with period daily when none is set and the configured period otherwise,
\* and no invocation makes an immediate dispatch.
Thm_C4_NonMessagingDefaultsToDaily ==
  (~Messaging /\ NoExplicitBundling
     /\ settings.bundlePeriod \in {""} \cup SCHEDULED_EVENT_PERIOD) =>
    /\ posted = <<>>
    /\ InFlight = {}
    /\ \A k \in Invocations : calls[k].postEvent = 0
    /\ \A k \in Finished :
         /\ results[k].calls.postEvent = 0
         /\ Decided(k) =>
              /\ k \in Scheduled
              /\ results[k].calls.addEvent = 1
    /\ Len(added) = Cardinality({k \in Finished : Decided(k)})
    /\ \A i \in 1..Len(added) :
         /\ added[i].period = DefaultedPeriod
         /\ added[i].userId = message.userId

\* a non-messaging event with neither a bundling value nor a period, scheduled
\* daily
Wit_C4_ScheduledDaily ==
  /\ ~Messaging /\ NoExplicitBundling /\ settings.bundlePeriod = ""
  /\ Len(results) >= 1
  /\ results[1].outcome = "scheduled"
  /\ Len(added) = 1
  /\ added[1].period = "daily"

\* ---- C5 ----

\* the resolved bundling state is enabled
ResolvedEnabled ==
  \/ settings.bundlingEnabled = "yes"
  \/ settings.bundlingEnabled = "" /\ ~Messaging

\* the resolved period name ("" when none is set)
ResolvedPeriod ==
  IF settings.bundlingEnabled = "" /\ ~Messaging THEN DefaultedPeriod
  ELSE settings.bundlePeriod

\* handling ends in a configuration error, with neither call made
EndsInConfigError ==
  /\ InFlight = {}
  /\ added = <<>> /\ posted = <<>>
  /\ \A k \in Finished :
       /\ results[k].calls.addEvent = 0 /\ results[k].calls.postEvent = 0
       /\ Decided(k) => results[k].outcome = "configError"

\* C5, for a period name that is set: whenever the resolved bundling state is
\* enabled and the resolved period name is not a key of
\* SCHEDULED_EVENT_PERIOD, handling ends in a configuration error and neither
\* addEvent nor postEvent is called.
Orig_C5_UnrecognizedPeriodThrows ==
  (ResolvedEnabled /\ ResolvedPeriod # "" /\ ResolvedPeriod \notin SCHEDULED_EVENT_PERIOD)
    => EndsInConfigError

\* ---- C6 ----

\* C6: an invocation never calls postEvent more than once; when the dispatch
\* of an invocation is rejected, the promise of that invocation rejects with
\* the dispatch failure and postEvent was called exactly once; every call of
\* postEvent belongs to one invocation.
Thm_C6_ImmediateFailurePropagatesNoRetry ==
  /\ \A k \in Invocations : calls[k].postEvent <= 1
  /\ \A k \in Finished :
       /\ results[k].calls.postEvent <= 1
       /\ results[k].bus = "rejected" =>
            /\ results[k].outcome = "dispatchError"
            /\ results[k].calls.postEvent = 1
            /\ results[k].calls.addEvent = 0
       /\ results[k].outcome = "sent" => results[k].bus = "resolved"
  /\ Len(posted) = Cardinality({k \in Finished : results[k].calls.postEvent = 1})
                     + Cardinality(InFlight)

\* an immediate dispatch was rejected and the invocation has ended
Wit_C6_RejectedDispatch ==
  /\ Len(results) >= 1
  /\ results[1].bus = "rejected"
  /\ results[1].outcome = "dispatchError"
  /\ Len(posted) = 1

\* ---- C14 ----

\* C14: the handler keeps no record of the events it has handled: every
\* delivery of the same event that reaches the bundling decision is processed
\* like the first one, with the same calls; every scheduling delivery adds a
\* record of its own and every sending delivery issues a dispatch of its own.
Thm_C14_RedeliveryProcessedAgain ==
  /\ \A j, k \in Finished :
       (Decided(j) /\ Decided(k)) =>
         /\ results[j].calls = results[k].calls
         /\ (j \in Scheduled) <=> (k \in Scheduled)
  /\ Len(added) = Cardinality(Scheduled)
  /\ Len(posted) = Cardinality(Dispatched) + Cardinality(InFlight)
  /\ \A i, j \in 1..Len(added) : added[i] = added[j]
  /\ \A i, j \in 1..Len(posted) : posted[i] = posted[j]

\* the same event was delivered twice and scheduled twice: two equal records
Wit_C14_ScheduledTwice ==
  /\ Len(results) = 2
  /\ results[1].outcome = "scheduled" /\ results[2].outcome = "scheduled"
  /\ Len(added) = 2
  /\ added[1] = added[2]
  /\ posted = <<>>

\* ---- C15 ----

\* C15: an invocation that ended without an error and was not suppressed by a
\* disabled email setting made exactly one of the two calls: addEvent once and
\* no postEvent, or postEvent once and no addEvent; no invocation makes both
\* calls; a scheduled record exists only when the resolved bundling state is
\* enabled and a period is set, and it carries that period.
Thm_C15_ExactlyOnePath ==
  /\ \A k \in Finished :
       results[k].outcome \notin {"skipped", "lookupError", "typeError", "thrown",
                                  "configError", "schedulerError", "dispatchError",
                                  "logError"} =>
         \/ /\ results[k].outcome = "scheduled"
            /\ results[k].calls.addEvent = 1 /\ results[k].calls.postEvent = 0
         \/ /\ results[k].outcome = "sent"
            /\ results[k].calls.addEvent = 0 /\ results[k].calls.postEvent = 1
  /\ \A k \in Invocations : calls[k].addEvent + calls[k].postEvent <= 1
  /\ \A k \in Finished : results[k].calls.addEvent + results[k].calls.postEvent <= 1
  /\ added # <<>> =>
       /\ ResolvedEnabled
       /\ ResolvedPeriod # ""
       /\ \A i \in 1..Len(added) : added[i].period = ResolvedPeriod
  /\ posted # <<>> => (~ResolvedEnabled \/ ResolvedPeriod = "")

\* bundling explicitly disabled although a period is set: the event was sent
\* at once and nothing was scheduled
Wit_C15_DisabledBundlingSent ==
  /\ settings.bundlingEnabled = "no" /\ settings.bundlePeriod = "daily"
  /\ Len(results) >= 1
  /\ results[1].outcome = "sent"
  /\ results[1].calls.postEvent = 1 /\ results[1].calls.addEvent = 0
  /\ added = <<>>

\* ---- C20 ----

\* C20: when the email setting of the notification type is 'no', an
\* invocation ends at once, having called neither getUsersById nor addEvent
\* nor postEvent (it ends in an error instead when the settings cannot be
\* fetched or the logging statement throws); when the settings carry the
\* notifications structure and the setting of the type is missing from it
\* (or 'yes'), no invocation is suppressed: every one whose settings are
\* fetched goes on to the user lookup.
Thm_C20_DisabledEmailDoesNothing ==
  /\ settings.emailEnabled = "no" =>
       /\ added = <<>> /\ posted = <<>>
       /\ \A k \in Invocations :
            /\ calls[k] = NoCalls
            /\ hpc[k] \in {"idle", "getSettings", "done"}
       /\ \A k \in Finished :
            /\ results[k].calls = NoCalls
            /\ results[k].outcome \in {"skipped", "lookupError", "thrown"}
  /\ (settings.notifications /\ settings.emailEnabled # "no") =>
       \A k \in Finished :
         /\ results[k].outcome # "skipped"
         /\ results[k].outcome # "lookupError" => results[k].calls.getUsersById = 1

\* email is disabled and two deliveries have ended without any call, although
\* bundling is enabled with a period
Wit_C20_SkippedTwice ==
  /\ settings.emailEnabled = "no"
  /\ settings.bundlingEnabled = "yes" /\ settings.bundlePeriod = "daily"
  /\ Len(results) = 2
  /\ \A k \in 1..2 : results[k].outcome = "skipped" /\ results[k].calls = NoCalls

----------------------------------------------------------------------------
(* Claims about the due-event batch processor *)

\* the positions in the batch of the events of user u
EventsOfUser(u) == {i \in 1..Len(events) : events[i].userId = u}

\* the statuses written for the event at position i, in the order written
RECURSIVE StatusesIn(_, _)
StatusesIn(cs, i) ==
  IF cs = <<>> THEN <<>>
  ELSE (IF i \in Range(cs[1].events) THEN <<cs[1].status>> ELSE <<>>)
       \o StatusesIn(Tail(cs), i)

Marks(i) == StatusesIn(statusCalls[events[i].userId], i)

\* the promise chain of user u has run to its end
ChainEnded(u) == chain[u] \in {"done", "unhandled"}

\* ---- C1 ----

\* C1: when the dispatch of a user has failed, no event of that user is ever
\* marked COMPLETED, and once the promise chain of that user has run, every
\* event of that user in the batch is marked FAILED (and nothing else).
Orig_C1_FailedDispatchMarksAllFailed ==
  \A u \in UserIds :
    dispatch[u] = "rejected" =>
      \A i \in EventsOfUser(u) :
        /\ COMPLETED \notin Range(Marks(i))
        /\ ChainEnded(u) => Marks(i) = <<FAILED>>

\* ---- C2 ----

\* C2: when the dispatch of a user has succeeded, no event of that user is
\* ever marked FAILED, and once the promise chain of that user has run, every
\* event of that user in the batch is marked COMPLETED (and nothing else),
\* also when the success continuation itself fails.
Orig_C2_SucceededDispatchMarksAllCompleted ==
  \A u \in UserIds :
    dispatch[u] = "resolved" =>
      \A i \in EventsOfUser(u) :
        /\ FAILED \notin Range(Marks(i))
        /\ ChainEnded(u) => Marks(i) = <<COMPLETED>>

\* ---- C7 ----

\* C7: handleScheduledEvents returns with the dispatch of every user of the
\* batch issued; a dispatch that fails afterwards is handled by the rejection
\* continuation, which marks every event of that user FAILED; whatever
\* happened to the other users, the chain of a user that has run to its end
\* has marked that user's events.
Orig_C7_BatchFailureCaughtOthersContinue ==
  /\ returned =>
       /\ Len(busCalls) = Cardinality({events[i].userId : i \in 1..Len(events)})
       /\ \A i \in 1..Len(events) : dispatch[events[i].userId] # "none"
  /\ \A u \in UserIds :
       /\ dispatch[u] = "rejected" =>
            /\ chain[u] \in {"catch", "done", "unhandled"}
            /\ chain[u] # "catch" => \A i \in EventsOfUser(u) : FAILED \in Range(Marks(i))
       /\ ChainEnded(u) => \A i \in EventsOfUser(u) : Marks(i) # <<>>

\* ---- C11 ----

\* the batch holds two events of one user in one project, both posts (the
\* types of the group that is split by authorHandle), by different authors
TwoAuthorsOneProject ==
  /\ Len(events) = 2
  /\ events[1].userId = events[2].userId
  /\ events[1].data.data.projectId = events[2].data.data.projectId
  /\ \A i \in 1..2 : events[i].data.data.type \in {"post.created", "post.mention"}
  /\ events[1].data.data.authorHandle # events[2].data.data.authorHandle

\* C11: for a batch of two events of one user in one project, of types of the
\* group split by authorHandle and by different authors, the processor issues
\* one dispatch whose payload holds exactly one project bundle with exactly
\* two sections, one per author, each with exactly one notification (that
\* author's event); when the dispatch has succeeded and its continuation has
\* run, both events are marked COMPLETED.
Orig_C11_TwoAuthorsTwoSectionsCompleted ==
  (TwoAuthorsOneProject /\ returned) =>
    /\ Len(busCalls) = 1
    /\ LET projects == busCalls[1].payload.data.projects IN
       /\ Len(projects) = 1
       /\ projects[1].id = events[1].data.data.projectId
       /\ Len(projects[1].sections) = 2
       /\ {projects[1].sections[k].notifications : k \in 1..2}
            = {<<events[k].data.data>> : k \in 1..2}
    /\ LET u == events[1].userId IN
       (dispatch[u] = "resolved" /\ chain[u] # "then") =>
         \A i \in 1..2 : COMPLETED \in Range(Marks(i))

\* ---- C12 ----

\* the users with events in the batch, in the order of their dispatches
BatchUsers == ascending({events[i].userId : i \in 1..Len(events)})

\* the notifications a dispatch carries, over its project bundles and sections
Carried(call) ==
  LET projects == call.payload.data.projects IN
  flatten([p \in 1..Len(projects) |->
             flatten([k \in 1..Len(projects[p].sections) |->
                        projects[p].sections[k].notifications])])

\* C12: once a non-empty batch is processed, the number of postEvent calls is
\* the number of distinct users in the batch, and the call of a user carries
\* the notifications of all events of that user and of no other event.
Thm_C12_OneDispatchPerUser ==
  (returned /\ Len(events) > 0) =>
    /\ Len(busCalls) = Len(BatchUsers)
    /\ \A j \in 1..Len(BatchUsers) :
         LET carried == Carried(busCalls[j])
             own == EventsOfUser(BatchUsers[j])
         IN /\ Len(carried) = Cardinality(own)
            /\ \A i \in own :
                 Occurrences(events[i].data.data, carried)
                   = Cardinality({h \in own : events[h].data.data = events[i].data.data})

\* a batch of three events of two users, two of them of the same user in
\* different projects, dispatched in two calls
Wit_C12_ThreeEventsTwoCalls ==
  /\ returned
  /\ Len(events) = 3
  /\ Len(busCalls) = 2
  /\ \E u \in UserIds :
       /\ Cardinality(EventsOfUser(u)) = 2
       /\ \E i, j \in EventsOfUser(u) :
            events[i].data.data.projectId # events[j].data.data.projectId

\* ---- C13 ----

\* C13: for an empty batch the processor issues no dispatch and makes no call
\* of setEventsStatus, before or after it returns.
Thm_C13_EmptyBatchDoesNothing ==
  Len(events) = 0 =>
    /\ busCalls = <<>>
    /\ \A u \in UserIds :
         dispatch[u] = "none" /\ chain[u] = "none" /\ statusCalls[u] = <<>>

\* the processor was called with an empty batch and has returned
Wit_C13_EmptyBatchReturned ==
  /\ Len(events) = 0
  /\ returned
  /\ busCalls = <<>>

\* ---- C16 ----

\* the dispatch of user u has completed
Settled(u) == dispatch[u] \in {"resolved", "rejected"}

\* C16: a status is written for the events of a user only in a step taken
\* when the dispatch of that user has completed (never while it is in flight
\* or not yet issued), and a dispatch once issued is never withdrawn: it stays
\* pending until it completes and keeps its outcome afterwards.
Thm_C16_StatusOnlyAfterDispatchCompleted ==
  /\ [](\A u \in UserIds : statusCalls[u] # <<>> => Settled(u))
  /\ [][\A u \in UserIds :
          /\ statusCalls'[u] # statusCalls[u] => (Settled(u) /\ dispatch'[u] = dispatch[u])
          /\ dispatch[u] = "pending" => dispatch'[u] \in {"pending", "resolved", "rejected"}
          /\ Settled(u) => dispatch'[u] = dispatch[u]]_vars

\* the events of one user are marked while the dispatch of the other user is
\* still in flight, with no status written for that user
Wit_C16_OneMarkedOtherInFlight ==
  \E u, v \in UserIds :
    /\ Settled(u) /\ statusCalls[u] # <<>>
    /\ dispatch[v] = "pending" /\ statusCalls[v] = <<>>

\* ---- C17 ----

\* C17: no event is ever marked twice, and once the promise chain of its user
\* has run to its end every event has been marked exactly once.
Orig_C17_EveryEventMarkedExactlyOnce ==
  \A i \in 1..Len(events) :
    /\ Len(Marks(i)) <= 1
    /\ ChainEnded(events[i].userId) => Len(Marks(i)) = 1

\* ---- C18 ----

\* C18: every call of setEventsStatus made by the chain of a user names
\* exactly the events of that user in the batch and says COMPLETED only when
\* that user's own dispatch succeeded; a step that writes a status for a user
\* is a step of that user's own continuation, after that user's own dispatch
\* has settled, and it leaves the statuses, the dispatch and the chain of
\* every other user as they were; the rejection continuation of a user is
\* entered only from that user's own dispatch failing or that user's own
\* fulfilment continuation throwing; whatever the order in which the
\* dispatches of the users settle.
Thm_C18_UsersMarkedIndependently ==
  /\ [](\A u \in UserIds :
          \A k \in 1..Len(statusCalls[u]) :
            LET c == statusCalls[u][k] IN
            /\ c.events = userEventsOf(events, u)
            /\ Range(c.events) = EventsOfUser(u)
            /\ c.status = COMPLETED => dispatch[u] = "resolved")
  /\ [][\A u \in UserIds :
          /\ statusCalls'[u] # statusCalls[u] =>
               /\ Settled(u)
               /\ chain[u] \in {"then", "catch"}
               /\ statusCalls'[u] =
                    Append(statusCalls[u],
                           [events |-> userEventsOf(events, u),
                            status |-> IF chain[u] = "then" THEN COMPLETED ELSE FAILED])
               /\ \A v \in UserIds \ {u} :
                    /\ statusCalls'[v] = statusCalls[v]
                    /\ dispatch'[v] = dispatch[v]
                    /\ chain'[v] = chain[v]
          /\ (chain'[u] = "catch" /\ chain[u] # "catch") =>
               \/ chain[u] = "pending" /\ dispatch'[u] = "rejected"
               \/ chain[u] = "then" /\ dispatch[u] = "resolved"]_vars

\* of two users the second-dispatched settled first: its dispatch failed and
\* its events are FAILED, then the dispatch of the first succeeded and its
\* events are COMPLETED and nothing else
Wit_C18_FailureStaysWithItsUser ==
  /\ Len(events) = 3
  /\ dispatch[2] = "rejected" /\ chain[2] = "done"
  /\ dispatch[1] = "resolved" /\ chain[1] = "done"
  /\ Cardinality(EventsOfUser(1)) = 2
  /\ \A i \in EventsOfUser(1) : Marks(i) = <<COMPLETED>>
  /\ \A i \in EventsOfUser(2) : Marks(i) = <<FAILED>>

\* ---- C19 ----

\* the objects made since the batch was passed
MadeSince == {a \in DOMAIN heap : a > Len(scheduled(events))}

\* C19: whatever the batch processor has done, every scheduled event of the
\* batch reads as it was passed: the event's own properties and, through its
\* data, the eventMessage the handler built with its data, recipients and cc,
\* for the first event of each user (whose data is cloned into the aggregated
\* message) as for the others; statuses are written through setEventsStatus
\* only.
Thm_C19_EventsNotMutated ==
  \A i \in 1..Len(events) : valueOf(heap, eventsAt[i]) = events[i]

\* a user's two events were aggregated: the eventMessage is a new object,
\* other than the first event's data; it holds the very recipients array of
\* that data and a data, a cc and a replyTo of its own; it was sent as it
\* reads now and not as the event's data reads; the chain has ended, and both
\* events still read as scheduled
Wit_C19_AggregatedFirstEventIntact ==
  /\ returned
  /\ Len(events) = 2
  /\ events[1].userId = events[2].userId
  /\ events[1].data.replyTo # DEFAULT_REPLY_EMAIL
  /\ LET first == heap[eventsAt[1]].data.ref IN
     \E eventMessage \in MadeSince :
        /\ "recipients" \in DOMAIN heap[eventMessage]
        /\ heap[eventMessage].recipients.ref = heap[first].recipients.ref
        /\ heap[eventMessage].data.ref # heap[first].data.ref
        /\ heap[eventMessage].cc.ref # heap[first].cc.ref
        /\ heap[eventMessage].replyTo.val = DEFAULT_REPLY_EMAIL
        /\ busCalls[1].payload = valueOf(heap, eventMessage)
        /\ busCalls[1].payload # events[1].data
  /\ ChainEnded(events[1].userId)
  /\ \A i \in 1..2 : valueOf(heap, eventsAt[i]) = events[i] /\ events[i] \in DueEvents
====
